---- MODULE Spec2Model ----
(***************************************************************************)
(* Model of bybit/asset/asset.go: the accessor layer for the asset         *)
(* endpoints.  Three operations (GetCoinExchangeRecords,                   *)
(* GetDeliveryRecords, GetSessionSettlementRecords) drain a cursor-        *)
(* paginated endpoint into one response; two (GetAssetInfo,                *)
(* GetAllCoinsBalance) issue a single Get.                                 *)
(*                                                                         *)
(* A Go pointer or interface value is modelled as a sequence: <<>> is nil, *)
(* <<v>> is a non-nil reference to v.                                      *)
(***************************************************************************)
EXTENDS Integers, Sequences, FiniteSets, TLC

VARIABLES
    op,            \* the method of impl the caller invokes
    req,           \* the caller's Request object (passed by pointer)
    pc,            \* position of the call
    inflight,      \* number of Get requests issued and not yet answered
    queryParams,   \* the client.Params map of the current iteration
    response,      \* generic value returned by client.Get
    pageResponse,  \* the page decoded by json.Unmarshal
    allRecords,    \* accumulator of the loop
    ret,           \* the pair (response pointer, error) returned
    gets,          \* history: the Get calls issued, in order
    pages,         \* history: the pages decoded, in order
    fault,         \* history: what the transport or the codec failed on
    req0,          \* history: the Request as the caller passed it to the call
    server,        \* the server behind client.Get
    other          \* the caller's other call, if it makes one

vars == <<op, req, pc, inflight, queryParams, response, pageResponse,
          allRecords, ret, gets, pages, fault, req0, server, other>>

-----------------------------------------------------------------------------
(* Bounds of the model *)

\* the server is asked for at most MaxPages pages in one call
MaxPages == 3

-----------------------------------------------------------------------------
(* Go values *)

Nil == <<>>
Ptr(v) == <<v>>
Deref(p) == p[1]

Digits == <<"0", "1", "2", "3", "4", "5", "6", "7", "8", "9">>

RECURSIVE FormatUint(_)
FormatUint(n) ==
    IF n < 10 THEN Digits[n + 1]
    ELSE FormatUint(n \div 10) \o Digits[(n % 10) + 1]

\* strconv.FormatInt(n, 10)
FormatInt(n) == IF n < 0 THEN "-" \o FormatUint(0 - n) ELSE FormatUint(n)

\* strconv.Itoa(n)
Itoa(n) == FormatInt(n)

\* fmt.Errorf(msg + ": %w", cause)
Errorf(msg, cause) == Ptr(msg \o ": " \o cause)

-----------------------------------------------------------------------------
(* client.Params: a map from string keys to string values *)

EmptyParams == [k \in {} |-> ""]

Put(m, k, v) == [x \in (DOMAIN m) \cup {k} |-> IF x = k THEN v ELSE m[x]]

\* variant: the key of an unset field is sent with an empty value
PutIfSetAlways(m, k, p) == Put(m, k, IF p # Nil THEN Deref(p) ELSE "")

\* if req.F != nil { queryParams[k] = *req.F }
PutIfSet(m, k, p) == IF p # Nil THEN Put(m, k, Deref(p)) ELSE m

PutIntIfSet(m, k, p) == IF p # Nil THEN Put(m, k, Itoa(Deref(p))) ELSE m

PutInt64IfSet(m, k, p) == IF p # Nil THEN Put(m, k, FormatInt(Deref(p))) ELSE m

-----------------------------------------------------------------------------
(* The operations and their endpoints *)

Paginated == {"GetCoinExchangeRecords", "GetDeliveryRecords",
              "GetSessionSettlementRecords"}
Single == {"GetAssetInfo", "GetAllCoinsBalance"}
Ops == Paginated \cup Single

Path(o) ==
    CASE o = "GetCoinExchangeRecords" -> "/v5/asset/exchange/order-record"
      [] o = "GetDeliveryRecords" -> "/v5/asset/delivery-record"
      [] o = "GetSessionSettlementRecords" -> "/v5/asset/settlement-record"
      [] o = "GetAssetInfo" -> "/v5/asset/transfer/query-asset-info"
      [] o = "GetAllCoinsBalance" -> "/v5/asset/transfer/query-account-coins-balance"

FetchMsg(o) ==
    CASE o = "GetCoinExchangeRecords" -> "error fetching coin exchange records"
      [] o = "GetDeliveryRecords" -> "error fetching delivery records"
      [] o = "GetSessionSettlementRecords" -> "error fetching session settlement records"
      [] o = "GetAssetInfo" -> "error fetching asset information"
      [] o = "GetAllCoinsBalance" -> "error fetching all coins balance"

ParseMsg(o) ==
    CASE o = "GetCoinExchangeRecords" -> "error parsing coin exchange records response"
      [] o = "GetDeliveryRecords" -> "error parsing delivery records response"
      [] o = "GetSessionSettlementRecords" -> "error parsing session settlement records response"
      [] o = "GetAssetInfo" -> "error parsing asset information response"
      [] o = "GetAllCoinsBalance" -> "error parsing all coins balance response"

-----------------------------------------------------------------------------
(* Query parameters built from a Request *)

CoinExchangeParams(r) ==
    LET p1 == PutIfSet(EmptyParams, "fromCoin", r.fromCoin)
        p2 == PutIfSet(p1, "toCoin", r.toCoin)
        p3 == PutIntIfSet(p2, "limit", r.limit)
    IN  PutIfSet(p3, "cursor", r.cursor)

DeliveryParams(r) ==
    LET p0 == Put(EmptyParams, "category", r.category)
        p1 == PutIfSet(p0, "symbol", r.symbol)
        p2 == PutInt64IfSet(p1, "startTime", r.startTime)
        p3 == PutInt64IfSet(p2, "endTime", r.endTime)
        p4 == PutIfSet(p3, "expDate", r.expDate)
        p5 == PutIntIfSet(p4, "limit", r.limit)
    IN  PutIfSet(p5, "cursor", r.cursor)

\* variant: the caller's cursor is not copied into the parameters
SessionSettlementParamsNoCursor(r) ==
    LET p0 == Put(EmptyParams, "category", r.category)
        p1 == PutIfSet(p0, "symbol", r.symbol)
        p2 == PutInt64IfSet(p1, "startTime", r.startTime)
        p3 == PutInt64IfSet(p2, "endTime", r.endTime)
    IN  PutIntIfSet(p3, "limit", r.limit)

SessionSettlementParams(r) ==
    LET p0 == Put(EmptyParams, "category", r.category)
        p1 == PutIfSet(p0, "symbol", r.symbol)
        p2 == PutInt64IfSet(p1, "startTime", r.startTime)
        p3 == PutInt64IfSet(p2, "endTime", r.endTime)
        p4 == PutIntIfSet(p3, "limit", r.limit)
    IN  PutIfSet(p4, "cursor", r.cursor)

AssetInfoParams(r) ==
    LET p0 == Put(EmptyParams, "accountType", r.accountType)
    IN  PutIfSet(p0, "coin", r.coin)

AllCoinsBalanceParams(r) ==
    LET p1 == PutIfSet(EmptyParams, "memberId", r.memberId)
        p2 == Put(p1, "accountType", r.accountType)
        p3 == PutIfSet(p2, "coin", r.coin)
    IN  PutIntIfSet(p3, "withBonus", r.withBonus)

\* the parameters an operation builds before its loop (or its only Get)
PreLoopParams(o, r) ==
    CASE o = "GetSessionSettlementRecords" -> SessionSettlementParams(r)
      [] o = "GetAssetInfo" -> AssetInfoParams(r)
      [] o = "GetAllCoinsBalance" -> AllCoinsBalanceParams(r)
      [] OTHER -> EmptyParams

\* the parameters at the top of a loop iteration, given the map qp left by
\* the code before it
LoopParams(o, r, qp) ==
    CASE o = "GetCoinExchangeRecords" -> CoinExchangeParams(r)
      [] o = "GetDeliveryRecords" -> DeliveryParams(r)
      [] OTHER -> qp

-----------------------------------------------------------------------------
(* The caller's requests *)

GetCoinExchangeRecordsRequest ==
    [fromCoin : {Nil, Ptr("BTC")}, toCoin : {Nil, Ptr("")},
     limit : {Nil, Ptr(0), Ptr(50)}, cursor : {Nil, Ptr(""), Ptr("C0")}]

GetDeliveryRecordRequest ==
    [category : {"option"}, symbol : {Nil, Ptr("BTC-30DEC22")},
     startTime : {Nil, Ptr(0)}, endTime : {Nil, Ptr(1670000000)},
     expDate : {Nil, Ptr("")}, limit : {Nil, Ptr(50)},
     cursor : {Nil, Ptr("C0")}]

GetSessionSettlementRecordRequest ==
    [category : {"linear"}, symbol : {Nil, Ptr("")},
     startTime : {Nil, Ptr(1670000000)}, endTime : {Nil, Ptr(0)},
     limit : {Nil, Ptr(0)}, cursor : {Nil, Ptr("C0")}]

GetAssetInfoRequest ==
    [accountType : {"SPOT", ""}, coin : {Nil, Ptr(""), Ptr("USDT")}]

GetAllCoinsBalanceRequest ==
    [memberId : {Nil, Ptr("592324")}, accountType : {"UNIFIED"},
     coin : {Nil, Ptr("")}, withBonus : {Nil, Ptr(0), Ptr(1)}]

\* the fields of a Request that are always sent
RequiredKeys(o) ==
    CASE o \in {"GetDeliveryRecords", "GetSessionSettlementRecords"} -> {"category"}
      [] o \in {"GetAssetInfo", "GetAllCoinsBalance"} -> {"accountType"}
      [] OTHER -> {}

\* the fields of a Request that are pointers
OptionalKeys(o) ==
    CASE o = "GetCoinExchangeRecords" -> {"fromCoin", "toCoin", "limit", "cursor"}
      [] o = "GetDeliveryRecords" ->
             {"symbol", "startTime", "endTime", "expDate", "limit", "cursor"}
      [] o = "GetSessionSettlementRecords" ->
             {"symbol", "startTime", "endTime", "limit", "cursor"}
      [] o = "GetAssetInfo" -> {"coin"}
      [] o = "GetAllCoinsBalance" -> {"memberId", "coin", "withBonus"}

Requests(o) ==
    CASE o = "GetCoinExchangeRecords" -> GetCoinExchangeRecordsRequest
      [] o = "GetDeliveryRecords" -> GetDeliveryRecordRequest
      [] o = "GetSessionSettlementRecords" -> GetSessionSettlementRecordRequest
      [] o = "GetAssetInfo" -> GetAssetInfoRequest
      [] o = "GetAllCoinsBalance" -> GetAllCoinsBalanceRequest

\* the requests that set no optional field but, possibly, the cursor
PlainRequests(o) ==
    {r \in Requests(o) : \A k \in OptionalKeys(o) \ {"cursor"} : r[k] = Nil}

-----------------------------------------------------------------------------
(* The server behind client.Get *)

PageLists == {<<>>, <<"a", "b">>, <<"c">>}
Cursors == {"", "X", "Y"}

\* the retCode and retMsg a server page may carry
Envelopes == {<<0, "OK">>, <<10001, "params error">>}

\* a well-formed page envelope
PageBodies ==
    {[kind |-> "object", retCode |-> e[1], retMsg |-> e[2], list |-> l, next |-> c] :
        e \in Envelopes, l \in PageLists, c \in Cursors}

\* an envelope without a result member
BareBodies == {[kind |-> "object", retCode |-> 10001, retMsg |-> "params error"]}

\* a value whose members have another type than the page shape expects
MistypedBodies == {[kind |-> "mistyped"]}

\* a value json.Marshal cannot encode
UnencodableBodies == {[kind |-> "unencodable"]}

Bodies == PageBodies \cup BareBodies \cup MistypedBodies \cup UnencodableBodies

\* client.Get returns an error instead of a value
Failure == [kind |-> "failure"]

\* the cursor a Get asks for: nil when the parameters carry none
CursorKey(params) ==
    IF "cursor" \in DOMAIN params THEN Ptr(params["cursor"]) ELSE Nil

\* what a server answer is apart from its retCode and retMsg
Shape(b) ==
    [kind |-> b.kind,
     result |-> IF "list" \in DOMAIN b THEN Ptr(<<b.list, b.next>>) ELSE Nil]

\* a server that answers any Get with anything: it keeps no memory
FreeServer == [memory |-> "off", menu |-> Bodies \cup {Failure}, map |-> <<>>]

\* the answers the server may give to a Get with the parameters params: any
\* of its menu, unless it remembers what it answered for the same cursor;
\* then the same answer (memory "exact") or the same answer up to retCode
\* and retMsg (memory "shape")
Offers(srv, params) ==
    LET key == CursorKey(params)
    IN  IF srv.memory = "off" \/ key \notin DOMAIN srv.map THEN srv.menu
        ELSE IF srv.memory = "exact" THEN {srv.map[key]}
        ELSE {b \in srv.menu : Shape(b) = Shape(srv.map[key])}

\* the server after it gave the answer to a Get with the parameters params
Remember(srv, params, answer) ==
    LET key == CursorKey(params)
    IN  IF srv.memory = "off" \/ key \in DOMAIN srv.map THEN srv
        ELSE [srv EXCEPT !.map =
                 [k \in (DOMAIN srv.map) \cup {key} |->
                     IF k = key THEN answer ELSE srv.map[k]]]

-----------------------------------------------------------------------------
(* Page Decoder: json.Marshal of the generic value, json.Unmarshal into the *)
(* response struct of the operation                                         *)

\* json.Marshal: the JSON document of the value, or an error
Marshal(v) ==
    IF v.kind = "unencodable"
    THEN [data |-> Nil, err |-> Ptr("json: unsupported value")]
    ELSE [data |-> Ptr(v), err |-> Nil]

Member(doc, k, zero) == IF k \in DOMAIN doc THEN doc[k] ELSE zero

\* the zero value of a response struct
ZeroResponse == [retCode |-> 0, retMsg |-> "", list |-> <<>>, next |-> ""]

\* variant: a page whose retCode is not 0 is refused
UnmarshalChecksRetCode(doc, dst) ==
    IF doc.kind = "mistyped" \/ Member(doc, "retCode", 0) # 0
    THEN [val |-> dst, err |-> Ptr("json: cannot unmarshal")]
    ELSE [val |-> [retCode |-> Member(doc, "retCode", dst.retCode),
                   retMsg |-> Member(doc, "retMsg", dst.retMsg),
                   list |-> Member(doc, "list", dst.list),
                   next |-> Member(doc, "next", dst.next)],
          err |-> Nil]

\* variant: the error of json.Unmarshal is dropped
UnmarshalNoError(doc, dst) ==
    IF doc.kind = "mistyped"
    THEN [val |-> dst, err |-> Nil]
    ELSE [val |-> [retCode |-> Member(doc, "retCode", dst.retCode),
                   retMsg |-> Member(doc, "retMsg", dst.retMsg),
                   list |-> Member(doc, "list", dst.list),
                   next |-> Member(doc, "next", dst.next)],
          err |-> Nil]

\* json.Unmarshal(data, &dst): members present in the document overwrite the
\* fields of dst, absent members leave them alone
Unmarshal(doc, dst) ==
    IF doc.kind = "mistyped"
    THEN [val |-> dst, err |-> Ptr("json: cannot unmarshal")]
    ELSE [val |-> [retCode |-> Member(doc, "retCode", dst.retCode),
                   retMsg |-> Member(doc, "retMsg", dst.retMsg),
                   list |-> Member(doc, "list", dst.list),
                   next |-> Member(doc, "next", dst.next)],
          err |-> Nil]

\* variant: the record list of the final response is left unset
FinalResponseNoList(records) ==
    [retCode |-> 0, retMsg |-> "OK", list |-> <<>>, next |-> ""]

\* variant: the envelope of the last page is kept in the final response
FinalResponseLastEnvelope(records) ==
    [retCode |-> pageResponse.retCode, retMsg |-> pageResponse.retMsg,
     list |-> records, next |-> ""]

\* the response built after the loop
FinalResponse(records) ==
    [retCode |-> 0, retMsg |-> "OK", list |-> records, next |-> ""]

-----------------------------------------------------------------------------
(* The state machine of one call *)

Init ==
    /\ op \in Ops
    /\ req \in Requests(op)
    /\ pc = "Idle"
    /\ inflight = 0
    /\ queryParams = EmptyParams
    /\ response = Nil
    /\ pageResponse = ZeroResponse
    /\ allRecords = <<>>
    /\ ret = [resp |-> Nil, err |-> Nil]
    /\ gets = <<>>
    /\ pages = <<>>
    /\ fault = "none"
    /\ req0 = req
    /\ server = FreeServer
    /\ other = Nil

\* the local variables of a method at its entry
AtEntry ==
    /\ pc = "Idle"
    /\ inflight = 0
    /\ queryParams = EmptyParams
    /\ response = Nil
    /\ pageResponse = ZeroResponse
    /\ allRecords = <<>>
    /\ ret = [resp |-> Nil, err |-> Nil]
    /\ gets = <<>>
    /\ pages = <<>>
    /\ fault = "none"

\* the pages of a server whose envelopes all report success
OkPageBodies == {b \in PageBodies : b.retCode = 0}

\* a server that answers a cursor it has been asked for before as it did then
SameCursorSamePage ==
    [memory |-> "exact",
     menu |-> OkPageBodies \cup BareBodies \cup MistypedBodies \cup {Failure},
     map |-> <<>>]

\* a caller that will call a paginated method twice with one Request
InitAgain ==
    /\ op \in Paginated
    /\ req \in PlainRequests(op)
    /\ req0 = req
    /\ AtEntry
    /\ server = SameCursorSamePage
    /\ other = Nil

\* a server that answers a cursor it has been asked for before with the same
\* page or failure, but for the page's retCode and retMsg
SameCursorSameShape ==
    [memory |-> "shape", menu |-> Bodies \cup {Failure}, map |-> <<>>]

\* a caller that will call a paginated method twice with equal Requests
InitRerun ==
    /\ op \in Paginated
    /\ req \in PlainRequests(op)
    /\ req0 = req
    /\ AtEntry
    /\ server = SameCursorSameShape
    /\ other = Nil

\* the variables of a call of the method o with the Request r, at its entry
EntryFrame(o, r) ==
    [op |-> o, req |-> r, req0 |-> r, pc |-> "Idle", inflight |-> 0,
     queryParams |-> EmptyParams, response |-> Nil,
     pageResponse |-> ZeroResponse, allRecords |-> <<>>,
     ret |-> [resp |-> Nil, err |-> Nil], gets |-> <<>>, pages |-> <<>>,
     fault |-> "none"]

\* the requests that set no optional field
BareRequests(o) == {r \in PlainRequests(o) : r.cursor = Nil}

\* a server of pages with records, that keeps no memory
PagesServer ==
    [memory |-> "off",
     menu |-> {b \in OkPageBodies : b.list # <<>> /\ b.next # "Y"}
                  \cup MistypedBodies \cup {Failure},
     map |-> <<>>]

\* a caller that calls two paginated methods of one impl, each with a
\* Request of its own, from two goroutines
InitConc ==
    /\ op \in Paginated
    /\ req \in BareRequests(op)
    /\ req0 = req
    /\ AtEntry
    /\ server = PagesServer
    /\ \E o2 \in Paginated : \E r2 \in BareRequests(o2) :
           other = Ptr(EntryFrame(o2, r2))

\* the same, for the requests that set no optional field but the cursor
LiveInit ==
    /\ Init
    /\ req \in PlainRequests(op)

\* variant: the next Get is issued while one request is still pending
GetPendingPipelined(n) == n > 1

\* client.Get is synchronous: the caller waits while a request is pending
GetPending(n) == n > 0

\* variant: the records gathered so far are returned along with the error
GetErrorReturnPartial(o) ==
    [resp |-> Ptr([retCode |-> 0, retMsg |-> "OK", list |-> allRecords, next |-> ""]),
     err |-> Errorf(FetchMsg(o), "transport failure")]

\* what the method returns when client.Get fails
GetErrorReturn(o) ==
    [resp |-> Nil, err |-> Errorf(FetchMsg(o), "transport failure")]

\* variant: a failed Get is tried again
AfterGetErrorRetry == "Fetching"

\* where control goes when client.Get fails: the return statement
AfterGetError == "Failed"

\* variant: the page's records are put in front of the accumulator
AppendRecordsPrepend(all, list) == list \o all

\* append(allRecords, page.Result.List...)
AppendRecords(all, list) == all \o list

\* variant: the loop also ends on a page without records
HasNextPageNonEmpty(page) == page.next # "" /\ page.list # <<>>

\* the loop goes on while the page carries a next cursor
HasNextPage(page) == page.next # ""

\* entry of the method: the statements before the loop
Call ==
    /\ pc = "Idle"
    /\ queryParams' = PreLoopParams(op, req)
    /\ allRecords' = <<>>
    /\ pc' = "Fetching"
    /\ UNCHANGED <<op, req, inflight, response, pageResponse, ret, gets, pages,
                   fault, req0, server, other>>

\* top of an iteration: build the parameters and call client.Get
IssueGet ==
    /\ pc = "Fetching"
    /\ ~GetPending(inflight)
    /\ Len(gets) < MaxPages
    /\ queryParams' = LoopParams(op, req, queryParams)
    /\ gets' = Append(gets, [path |-> Path(op), params |-> queryParams'])
    /\ inflight' = inflight + 1
    /\ pageResponse' = ZeroResponse
    /\ UNCHANGED <<op, req, pc, response, allRecords, ret, pages, fault, req0,
                   server, other>>

\* client.Get returns an error
GetFails ==
    /\ pc = "Fetching"
    /\ GetPending(inflight)
    /\ Failure \in Offers(server, gets[Len(gets)].params)
    /\ server' = Remember(server, gets[Len(gets)].params, Failure)
    /\ inflight' = inflight - 1
    /\ fault' = "fetch"
    /\ ret' = GetErrorReturn(op)
    /\ pc' = AfterGetError
    /\ UNCHANGED <<op, req, queryParams, response, pageResponse, allRecords,
                   gets, pages, req0, other>>

\* client.Get returns a value
GetReturns ==
    /\ pc = "Fetching"
    /\ GetPending(inflight)
    /\ inflight' = inflight - 1
    /\ \E body \in Offers(server, gets[Len(gets)].params) \ {Failure} :
           /\ response' = Ptr(body)
           /\ server' = Remember(server, gets[Len(gets)].params, body)
    /\ pc' = "Decoding"
    /\ UNCHANGED <<op, req, queryParams, pageResponse, allRecords, ret, gets,
                   pages, fault, req0, other>>

\* json.Marshal, then json.Unmarshal into the response struct
Decode ==
    /\ pc = "Decoding"
    /\ LET m == Marshal(Deref(response))
           u == Unmarshal(Deref(m.data), pageResponse)
       IN  IF m.err # Nil
           THEN /\ ret' = [resp |-> Nil, err |-> m.err]
                /\ pc' = "Failed"
                /\ UNCHANGED <<pageResponse, pages>>
           ELSE IF u.err # Nil
           THEN /\ ret' = [resp |-> Nil, err |-> Errorf(ParseMsg(op), Deref(u.err))]
                /\ pc' = "Failed"
                /\ UNCHANGED <<pageResponse, pages>>
           ELSE /\ pageResponse' = u.val
                /\ pages' = Append(pages, [list |-> u.val.list, next |-> u.val.next])
                /\ IF op \in Paginated
                   THEN /\ pc' = "Accumulating"
                        /\ ret' = ret
                   ELSE /\ pc' = "Done"
                        /\ ret' = [resp |-> Ptr(u.val), err |-> Nil]
    /\ fault' = CASE Deref(response).kind = "unencodable" -> "encode"
                   [] Deref(response).kind = "mistyped" -> "decode"
                   [] OTHER -> fault
    /\ response' = Nil
    /\ UNCHANGED <<op, req, inflight, queryParams, allRecords, gets, req0,
                   server, other>>

\* variant: the Request's cursor is not updated
SetCursorStale(o, r, cursor) == r

\* the cursor carried to the next iteration
SetCursor(o, r, cursor) ==
    IF o \in {"GetCoinExchangeRecords", "GetDeliveryRecords"}
    THEN [r EXCEPT !.cursor = Ptr(cursor)]
    ELSE r

\* variant: the cursor entry is written once and not overwritten
SetCursorParamOnce(o, qp, cursor) ==
    IF o = "GetSessionSettlementRecords" /\ "cursor" \notin DOMAIN qp
    THEN Put(qp, "cursor", cursor)
    ELSE qp

\* queryParams["cursor"] = pageResponse.Result.NextPageCursor
SetCursorParam(o, qp, cursor) ==
    IF o = "GetSessionSettlementRecords" THEN Put(qp, "cursor", cursor) ELSE qp

\* append the page's records, then leave the loop or set the next cursor
Accumulate ==
    /\ pc = "Accumulating"
    /\ allRecords' = AppendRecords(allRecords, pageResponse.list)
    /\ IF ~HasNextPage(pageResponse)
       THEN /\ ret' = [resp |-> Ptr(FinalResponse(allRecords')), err |-> Nil]
            /\ pc' = "Done"
            /\ UNCHANGED <<req, queryParams>>
       ELSE /\ req' = SetCursor(op, req, pageResponse.next)
            /\ queryParams' = SetCursorParam(op, queryParams, pageResponse.next)
            /\ pc' = "Fetching"
            /\ ret' = ret
    /\ UNCHANGED <<op, inflight, response, pageResponse, gets, pages, fault,
                   req0, server, other>>

Next == Call \/ IssueGet \/ GetFails \/ GetReturns \/ Decode \/ Accumulate

Terminal == pc \in {"Done", "Failed"}

\* the variables of the call in progress
ActiveFrame ==
    [op |-> op, req |-> req, req0 |-> req0, pc |-> pc, inflight |-> inflight,
     queryParams |-> queryParams, response |-> response,
     pageResponse |-> pageResponse, allRecords |-> allRecords, ret |-> ret,
     gets |-> gets, pages |-> pages, fault |-> fault]

\* the caller, its first call returned, calls the method again and passes
\* the same Request object
CallAgain ==
    /\ pc = "Done"
    /\ other = Nil
    /\ op \in Paginated
    /\ other' = Ptr(ActiveFrame)
    /\ req0' = req
    /\ pc' = "Idle"
    /\ inflight' = 0
    /\ queryParams' = EmptyParams
    /\ response' = Nil
    /\ pageResponse' = ZeroResponse
    /\ allRecords' = <<>>
    /\ ret' = [resp |-> Nil, err |-> Nil]
    /\ gets' = <<>>
    /\ pages' = <<>>
    /\ fault' = "none"
    /\ UNCHANGED <<op, req, server>>

NextAgain == Next \/ CallAgain

\* the caller, its first call ended, calls the method again with a Request
\* equal to the one it passed to the first call
Rerun ==
    /\ Terminal
    /\ other = Nil
    /\ op \in Paginated
    /\ other' = Ptr(ActiveFrame)
    /\ req' = req0
    /\ pc' = "Idle"
    /\ inflight' = 0
    /\ queryParams' = EmptyParams
    /\ response' = Nil
    /\ pageResponse' = ZeroResponse
    /\ allRecords' = <<>>
    /\ ret' = [resp |-> Nil, err |-> Nil]
    /\ gets' = <<>>
    /\ pages' = <<>>
    /\ fault' = "none"
    /\ UNCHANGED <<op, req0, server>>

NextRerun == Next \/ Rerun

\* variant: the accumulator belongs to impl and is shared by its calls
ResumeSharedAccumulator(f) == [f EXCEPT !.allRecords = allRecords]

\* the variables a goroutine finds when it runs again: those it left, all of
\* them locals of its invocation or fields of its own Request
Resume(f) == f

\* the scheduler lets the other goroutine run
Switch ==
    /\ other # Nil
    /\ LET f == Resume(Deref(other))
       IN  /\ op' = f.op
           /\ req' = f.req
           /\ req0' = f.req0
           /\ pc' = f.pc
           /\ inflight' = f.inflight
           /\ queryParams' = f.queryParams
           /\ response' = f.response
           /\ pageResponse' = f.pageResponse
           /\ allRecords' = f.allRecords
           /\ ret' = f.ret
           /\ gets' = f.gets
           /\ pages' = f.pages
           /\ fault' = f.fault
    /\ other' = Ptr(ActiveFrame)
    /\ UNCHANGED server

NextConc == Next \/ Switch

SpecConc == InitConc /\ [][NextConc]_vars

SpecRerun == InitRerun /\ [][NextRerun]_vars

SpecAgain == InitAgain /\ [][NextAgain]_vars

Spec == Init /\ [][Next]_vars

\* the method runs in one goroutine and client.Get always returns: a step
\* that can be taken is taken
FairSpec == LiveInit /\ [][Next]_vars /\ WF_vars(Next)

-----------------------------------------------------------------------------
(* Properties *)

RECURSIVE Concat(_)
\* the record lists of a sequence of pages, one after the other
Concat(ps) ==
    IF ps = <<>> THEN <<>> ELSE Concat(SubSeq(ps, 1, Len(ps) - 1)) \o ps[Len(ps)].list

\* the pages whose records have been appended to allRecords
Accumulated ==
    IF pc = "Accumulating" THEN SubSeq(pages, 1, Len(pages) - 1) ELSE pages

\* C1: a paginated call whose k-th page is the first with an empty
\* nextPageCursor issues exactly k Gets and returns, without error, the
\* concatenation in page order of the record lists of pages 1..k: no page
\* follows a page with an empty cursor, and the response returned lists
\* exactly the records of the pages fetched.
C1_ExactlyKFetches ==
    op \in Paginated =>
        /\ \A i \in 1..(Len(pages) - 1) : pages[i].next # ""
        /\ (pages # <<>> /\ pages[Len(pages)].next = "") =>
               /\ Len(gets) = Len(pages)
               /\ pc \in {"Accumulating", "Done"}
        /\ pc = "Done" =>
               /\ pages # <<>>
               /\ pages[Len(pages)].next = ""
               /\ Len(gets) = Len(pages)
               /\ ret.err = Nil
               /\ ret.resp # Nil
               /\ Deref(ret.resp).list = Concat(pages)

C1_Witness ==
    /\ op \in Paginated
    /\ pc = "Done"
    /\ Len(gets) >= 2
    /\ Deref(ret.resp).list = <<"a", "b", "c">>

\* C2: allRecords is at every moment the concatenation, in page order, of the
\* record lists of the pages accumulated so far (a page that has been decoded
\* and is about to be appended is the only one not yet in it), and a step
\* changes allRecords only by appending at its tail: nothing is reordered,
\* removed or deduplicated.
C2_OrderPreserved ==
    /\ [](op \in Paginated => allRecords = Concat(Accumulated))
    /\ [][/\ Len(allRecords') >= Len(allRecords)
          /\ SubSeq(allRecords', 1, Len(allRecords)) = allRecords]_vars

C2_Witness ==
    /\ op \in Paginated
    /\ Len(pages) >= 2
    /\ allRecords = <<"a", "b", "a", "b">>

\* C3: when client.Get fails on page n, for any n, the paginated call is in
\* its failed state with a nil response and the same wrapped error whatever
\* n is; the records of pages 1..n-1 are in no response.
C3_FetchFailureNoPartial ==
    (op \in Paginated /\ fault = "fetch") =>
        /\ pc = "Failed"
        /\ ret.resp = Nil
        /\ ret.err = Errorf(FetchMsg(op), "transport failure")

C3_Witness ==
    /\ op \in Paginated
    /\ fault = "fetch"
    /\ Len(pages) >= 1
    /\ allRecords # <<>>
    /\ pc = "Failed"

\* C4: when the response of page n cannot be encoded or decoded, the
\* paginated call fails at once with a nil response and an error: the page
\* is not appended, no further Get is issued and the records of the earlier
\* pages are not returned.
C4_DecodeFailureAborts ==
    /\ []((op \in Paginated /\ fault \in {"encode", "decode"}) =>
            /\ pc = "Failed"
            /\ ret.resp = Nil
            /\ ret.err # Nil
            /\ Len(gets) = Len(pages) + 1
            /\ allRecords = Concat(pages))
    /\ [][(op \in Paginated /\ fault \in {"encode", "decode"}) =>
            /\ gets' = gets
            /\ pages' = pages
            /\ allRecords' = allRecords]_vars

C4_Witness ==
    /\ op \in Paginated
    /\ fault = "decode"
    /\ Len(pages) >= 1
    /\ allRecords # <<>>
    /\ pc = "Failed"

\* C5: the parameters of the Get of iteration N+1 carry as cursor the
\* nextPageCursor of the page decoded on iteration N, and every other key is
\* present or absent, with the same value, as on iteration N.
C5_CursorPropagation ==
    op \in Paginated =>
        \A n \in 1..(Len(gets) - 1) :
            LET prev == gets[n].params
                next == gets[n + 1].params
            IN  /\ n <= Len(pages)
                /\ "cursor" \in DOMAIN next
                /\ next["cursor"] = pages[n].next
                /\ (DOMAIN next) \ {"cursor"} = (DOMAIN prev) \ {"cursor"}
                /\ \A k \in (DOMAIN prev) \ {"cursor"} : next[k] = prev[k]

C5_Witness ==
    /\ op \in Paginated
    /\ Len(gets) = 3
    /\ "cursor" \notin DOMAIN gets[1].params
    /\ "limit" \in DOMAIN gets[1].params
    /\ gets[2].params["cursor"] = "X"
    /\ gets[3].params["cursor"] = "Y"

\* C6: every response a paginated call returns has retCode 0, retMsg "OK"
\* and an empty nextPageCursor, and comes without error, whatever envelope
\* the pages carried.
C6_Normalization ==
    (op \in Paginated /\ ret.resp # Nil) =>
        /\ Deref(ret.resp).retCode = 0
        /\ Deref(ret.resp).retMsg = "OK"
        /\ Deref(ret.resp).next = ""
        /\ ret.err = Nil

C6_Witness ==
    /\ op \in Paginated
    /\ pc = "Done"
    /\ ret.resp # Nil
    /\ pageResponse.retCode = 10001
    /\ pageResponse.retMsg = "params error"
    /\ Len(pages) >= 2

\* the required fields and the optional fields whose pointer is not nil
KeySet(o, r) == RequiredKeys(o) \cup {k \in OptionalKeys(o) : r[k] # Nil}

\* the cursor key GetSessionSettlementRecords writes into its map after a page
CarriedCursor ==
    IF op = "GetSessionSettlementRecords" /\ gets # <<>> THEN {"cursor"} ELSE {}

\* C7 as stated: at every Get the keys of the parameters are exactly the
\* required fields and the optional fields that are set in the Request.
C7_Original ==
    [][gets' # gets => DOMAIN gets'[Len(gets')].params = KeySet(op, req)]_vars

\* C7, amended: at every Get the keys of the parameters are exactly the
\* required fields and the optional fields set in the Request, and in
\* addition the cursor key on every Get after the first one of
\* GetSessionSettlementRecords, which carries the cursor in its map and
\* leaves the Request's cursor as the caller set it.  An unset field has no
\* key; a field set to zero or to the empty string has one.
C7_KeySet ==
    [][gets' # gets =>
          DOMAIN gets'[Len(gets')].params = KeySet(op, req) \cup CarriedCursor]_vars

C7_Witness ==
    /\ op = "GetSessionSettlementRecords"
    /\ req.cursor = Nil /\ req.symbol = Ptr("") /\ req.limit = Ptr(0)
    /\ req.startTime = Nil
    /\ Len(gets) = 2
    /\ DOMAIN gets[1].params = {"category", "symbol", "endTime", "limit"}
    /\ DOMAIN gets[2].params = {"category", "symbol", "endTime", "limit", "cursor"}
    /\ gets[2].params["symbol"] = "" /\ gets[2].params["limit"] = "0"

\* the server has so far answered every Get with a page that decodes and
\* carries a non-empty cursor
OnlyMorePages ==
    /\ fault = "none"
    /\ \A i \in 1..Len(pages) : pages[i].next # ""

\* C8: the loop of a paginated call ends exactly when a page carries an empty
\* cursor.  As long as every page decodes with a non-empty cursor the call is
\* in no terminal state; once a page with an empty cursor has been decoded
\* the call reaches Done; and every call ends unless all the pages the
\* server was asked for carried a non-empty cursor.
C8_TerminatesIffEmptyCursor ==
    /\ []((op \in Paginated /\ OnlyMorePages) => ~Terminal)
    /\ ((op \in Paginated /\ pages # <<>> /\ pages[Len(pages)].next = "")
            ~> (pc = "Done"))
    /\ <>(Terminal \/ (OnlyMorePages /\ Len(pages) = MaxPages))

C8_Witness ==
    /\ op \in Paginated
    /\ OnlyMorePages
    /\ Len(pages) >= 3
    /\ pc = "Fetching"
    /\ inflight = 0

\* C9: nothing is retried.  After the first failure of a Get or of a decode
\* the call has failed and no Get is issued any more, so a call failing on
\* page n has issued n Gets; and the number of Gets never exceeds the number
\* of pages decoded by more than one.
C9_NoRetry ==
    /\ [](fault # "none" => (pc = "Failed" /\ Len(gets) = Len(pages) + 1))
    /\ [](Len(gets) <= Len(pages) + 1)
    /\ [][fault # "none" => gets' = gets]_vars

C9_Witness ==
    /\ op = "GetDeliveryRecords"
    /\ fault = "fetch"
    /\ pc = "Failed"
    /\ Len(gets) = 3
    /\ Len(pages) = 2

Transitions ==
    {<<"Fetching", "Decoding">>, <<"Fetching", "Failed">>,
     <<"Decoding", "Accumulating">>, <<"Decoding", "Failed">>,
     <<"Accumulating", "Fetching">>, <<"Accumulating", "Done">>}

\* a step of a call that changes its state
AllowedStep ==
    /\ (pc = "Idle" => pc' = "Fetching")
    /\ ((pc # "Idle" /\ pc' # pc) => <<pc, pc'>> \in Transitions)
    /\ (pc \in {"Decoding", "Accumulating"} => pc' # pc)
    /\ ((pc = "Accumulating" /\ pc' = "Fetching") => pageResponse.next # "")
    /\ ((pc = "Accumulating" /\ pc' = "Done") => pageResponse.next = "")
    /\ ~Terminal
    /\ (gets' # gets =>
           /\ inflight = 0
           /\ Len(pages) = Len(gets)
           /\ allRecords = Concat(pages))

\* C10: a paginated call enters Fetching and from there takes only the
\* transitions of the state machine, Accumulating going to Fetching on a
\* non-empty cursor and to Done on an empty one; Done and Failed are left by
\* no step.  A Get is issued only when every earlier Get has been answered,
\* its page decoded and accumulated, and at most one request is pending.
C10_StateMachine ==
    /\ [][(op \in Paginated) => AllowedStep]_vars
    /\ [](inflight \in {0, 1})
    /\ [](inflight = 1 => pc = "Fetching")

C10_Witness ==
    /\ op \in Paginated
    /\ pc = "Fetching"
    /\ inflight = 1
    /\ Len(gets) = 2
    /\ Len(pages) = 1
    /\ allRecords = <<"a", "b">>

\* C13: the first Get of a paginated call carries the cursor the caller put
\* in the Request, or none when the caller put none; and as long as no page
\* has been decoded there is no other Get and the Request is as the caller
\* passed it.
C13_FirstGetCursor ==
    op \in Paginated =>
        /\ gets # <<>> => CursorKey(gets[1].params) = req0.cursor
        /\ pages = <<>> => (Len(gets) <= 1 /\ req = req0)

C13_Witness ==
    /\ op = "GetSessionSettlementRecords"
    /\ req0.cursor = Ptr("C0")
    /\ gets # <<>>
    /\ gets[1].params["cursor"] = "C0"
    /\ pages = <<>>
    /\ pc = "Decoding"

\* the causes the transport and the codec report
Causes == {"transport failure", "json: unsupported value", "json: cannot unmarshal"}

\* C14: every error an operation returns is wrapped with the context of the
\* phase it arose in: a failed Get with the fetch message of the operation, a
\* failed encoding or decoding of the response with its parse message.
C14_ErrorsWrapped ==
    ret.err # Nil =>
        /\ fault = "fetch" => \E c \in Causes : ret.err = Errorf(FetchMsg(op), c)
        /\ fault \in {"encode", "decode"} =>
               \E c \in Causes : ret.err = Errorf(ParseMsg(op), c)

\* the outcomes the server gave to the call, as the Pagination Aggregator
\* sees them
AggOutcomes ==
    [i \in 1..Len(pages) |->
        [kind |-> "page", recordList |-> pages[i].list, nextCursor |-> pages[i].next]]
    \o (CASE fault = "fetch" -> <<[kind |-> "transportError"]>>
          [] fault \in {"encode", "decode"} -> <<[kind |-> "decodeError"]>>
          [] OTHER -> <<>>)

RECURSIVE AggregateLoop(_, _, _, _)
\* the loop of the Pagination Aggregator: cursor is the Request's cursor,
\* outcomes what the Transport Client and the Page Decoder will yield, sent
\* the cursors of the fetches made so far
AggregateLoop(cursor, outcomes, allRecs, sent) ==
    LET fetched == Append(sent, cursor)
    IN  IF outcomes = <<>>
        THEN [state |-> "Fetching", cursors |-> fetched, records |-> allRecs]
        ELSE LET o == Head(outcomes)
             IN  CASE o.kind = "transportError" ->
                        [state |-> "Failed", cursors |-> fetched, records |-> <<>>]
                   [] o.kind = "decodeError" ->
                        [state |-> "Failed", cursors |-> fetched, records |-> <<>>]
                   [] o.kind = "page" /\ o.nextCursor = "" ->
                        [state |-> "Done", cursors |-> fetched,
                         records |-> allRecs \o o.recordList]
                   [] OTHER ->
                        AggregateLoop(Ptr(o.nextCursor), Tail(outcomes),
                                      allRecs \o o.recordList, fetched)

\* Aggregate(initialRequest, endpointPath) of the Pagination Aggregator
Aggregate(cursor, outcomes) == AggregateLoop(cursor, outcomes, <<>>, <<>>)

\* the cursors of the Gets issued
CursorsSent == [i \in 1..Len(gets) |-> CursorKey(gets[i].params)]

\* C15: each of the three paginated operations behaves as the generic
\* Aggregate run on the same initial cursor and the same server outcomes: it
\* sends the same cursors in the same order, and when it has ended it has
\* made the same number of fetches and has the same outcome, success with the
\* same records in the same order or failure without a response.
C15_SameAsAggregate ==
    op \in Paginated =>
        LET a == Aggregate(req0.cursor, AggOutcomes)
        IN  /\ Len(gets) <= Len(a.cursors)
            /\ CursorsSent = SubSeq(a.cursors, 1, Len(gets))
            /\ Terminal =>
                   /\ Len(gets) = Len(a.cursors)
                   /\ pc = a.state
                   /\ pc = "Done" =>
                          /\ ret.err = Nil
                          /\ ret.resp # Nil
                          /\ Deref(ret.resp).list = a.records
                          /\ Deref(ret.resp).next = ""
                   /\ pc = "Failed" => (ret.resp = Nil /\ ret.err # Nil)

C15_Witness ==
    /\ op = "GetSessionSettlementRecords"
    /\ pc = "Done"
    /\ req0.cursor = Ptr("C0")
    /\ CursorsSent = <<Ptr("C0"), Ptr("Y"), Ptr("X")>>
    /\ Deref(ret.resp).list = <<"c", "a", "b">>

\* C12: a second call of a paginated method with the same Request, made
\* after a first call that drained two pages or more, against a server that
\* serves the same page for the same cursor, issues the Gets of the first
\* call, with the same parameters in the same order, and returns its records.
C12_SecondCallSame ==
    (other # Nil /\ Len(Deref(other).pages) >= 2) =>
        LET first == Deref(other)
        IN  /\ Len(gets) <= Len(first.gets)
            /\ \A i \in 1..Len(gets) : gets[i] = first.gets[i]
            /\ pc = "Done" =>
                   /\ gets = first.gets
                   /\ Deref(ret.resp).list = Deref(first.ret.resp).list

\* C16: a run of a paginated method against pages that differ from those of
\* another run in retCode and retMsg only issues the same Gets and ends in
\* the same way with the same response or error: no retCode of a page makes
\* the call fail, and none shows in what it returns.
C16_EnvelopeIndependent ==
    other # Nil =>
        LET run1 == Deref(other)
        IN  /\ Len(gets) <= Len(run1.gets)
            /\ \A i \in 1..Len(gets) : gets[i] = run1.gets[i]
            /\ Terminal =>
                   /\ gets = run1.gets
                   /\ pc = run1.pc
                   /\ ret = run1.ret

C16_Witness ==
    /\ other # Nil
    /\ pc = "Done"
    /\ Len(pages) >= 2
    /\ pageResponse.retCode = 10001
    /\ Deref(other).pageResponse.retCode = 0
    /\ Deref(ret.resp).list = <<"a", "b", "c">>

\* the parameters of the i-th Get of a call that runs alone: those built
\* from the Request as passed, with the cursor of the page before
AloneParams(o, r0, ps, i) ==
    LET first == CASE o = "GetCoinExchangeRecords" -> CoinExchangeParams(r0)
                   [] o = "GetDeliveryRecords" -> DeliveryParams(r0)
                   [] o = "GetSessionSettlementRecords" -> SessionSettlementParams(r0)
    IN  IF i = 1 THEN first ELSE Put(first, "cursor", ps[i - 1].next)

\* the call with the variables f has issued the Gets, gathered the records
\* and returned the result of a call that is served the same pages alone
AsAlone(f) ==
    /\ Len(f.gets) <= Len(f.pages) + 1
    /\ \A i \in 1..Len(f.gets) :
           /\ i = 1 \/ f.pages[i - 1].next # ""
           /\ f.gets[i] = [path |-> Path(f.op),
                           params |-> AloneParams(f.op, f.req0, f.pages, i)]
    /\ f.allRecords =
           Concat(IF f.pc = "Accumulating"
                  THEN SubSeq(f.pages, 1, Len(f.pages) - 1) ELSE f.pages)
    /\ f.pc = "Done" =>
           f.ret = [resp |-> Ptr([retCode |-> 0, retMsg |-> "OK",
                                  list |-> Concat(f.pages), next |-> ""]),
                    err |-> Nil]
    /\ f.pc # "Done" => f.ret.resp = Nil
    /\ f.pc = "Failed" <=> f.fault # "none"

\* C11: when two paginated calls with a Request each run concurrently, in any
\* interleaving of their steps, each issues the Gets and returns the result
\* it would alone against the pages it is served: nothing one call writes is
\* read by the other.
C11_NoInterference ==
    other # Nil => (AsAlone(ActiveFrame) /\ AsAlone(Deref(other)))

C11_Witness ==
    /\ other # Nil
    /\ op = "GetCoinExchangeRecords"
    /\ Deref(other).op = "GetDeliveryRecords"
    /\ pc = "Accumulating"
    /\ Len(pages) = 2
    /\ allRecords = <<"c">>
    /\ Deref(other).pc = "Fetching"
    /\ Deref(other).inflight = 1
    /\ Len(Deref(other).gets) = 2
    /\ Deref(other).allRecords = <<"a", "b">>

====
